---- MODULE Spec2Model ----
(***************************************************************************)
(* Model of python/auto-completion/zsh/zsh_completion.py: the module-level *)
(* script that walks an argparse parser's actions, builds one zsh          *)
(* completion directive per action, substitutes the directives into a      *)
(* template, writes the result, and then runs the date-helper demo prints. *)
(*                                                                         *)
(* A Python str is a sequence of one-character strings, so that replace,   *)
(* lower, join and str() are computed character by character.              *)
(***************************************************************************)
EXTENDS Integers, Sequences, FiniteSets, TLC

(* ------------------------- Python builtins ----------------------------- *)

Digits == <<"0", "1", "2", "3", "4", "5", "6", "7", "8", "9">>

\* str(n) for a non-negative int
RECURSIVE IntToStr(_)
IntToStr(n) ==
    IF n < 10 THEN <<Digits[n + 1]>>
    ELSE IntToStr(n \div 10) \o <<Digits[(n % 10) + 1]>>

LowerMap ==
    [A |-> "a", B |-> "b", C |-> "c", D |-> "d", E |-> "e", F |-> "f",
     G |-> "g", H |-> "h", I |-> "i", J |-> "j", K |-> "k", L |-> "l",
     M |-> "m", N |-> "n", O |-> "o", P |-> "p", Q |-> "q", R |-> "r",
     S |-> "s", T |-> "t", U |-> "u", V |-> "v", W |-> "w", X |-> "x",
     Y |-> "y", Z |-> "z"]

\* str.lower()
Lower(s) ==
    [i \in 1..Len(s) |-> IF s[i] \in DOMAIN LowerMap THEN LowerMap[s[i]] ELSE s[i]]

\* str.replace(old, new) for a non-empty old: leftmost, non-overlapping
\* occurrences, scanned once; inserted text is not scanned again
RECURSIVE ReplaceFrom(_, _, _, _)
ReplaceFrom(s, i, old, new) ==
    IF i > Len(s) THEN <<>>
    ELSE IF i + Len(old) - 1 <= Len(s) /\ SubSeq(s, i, i + Len(old) - 1) = old
         THEN new \o ReplaceFrom(s, i + Len(old), old, new)
         ELSE <<s[i]>> \o ReplaceFrom(s, i + 1, old, new)

Replace(s, old, new) == ReplaceFrom(s, 1, old, new)

\* sep.join(parts)
RECURSIVE Join(_, _)
Join(sep, parts) ==
    IF parts = <<>> THEN <<>>
    ELSE IF Len(parts) = 1 THEN parts[1]
    ELSE parts[1] \o sep \o Join(sep, Tail(parts))

\* range(a, b) as a list
Range(a, b) == [i \in 1..(IF b > a THEN b - a ELSE 0) |-> a + i - 1]

(* ------------------------- Python values ------------------------------- *)
\* Every value has the same record shape; kind tells which field is read.

None        == [kind |-> "None", s |-> <<>>, n |-> 0, t |-> <<>>]
StrV(x)     == [kind |-> "str", s |-> x, n |-> 0, t |-> <<>>]
IntV(k)     == [kind |-> "int", s |-> <<>>, n |-> k, t |-> <<>>]
TupleV(xs)  == [kind |-> "tuple", s |-> <<>>, n |-> 0, t |-> xs]
FileTypeV   == [kind |-> "FileType", s |-> <<>>, n |-> 0, t |-> <<>>]
TypeV(name) == [kind |-> "type", s |-> name, n |-> 0, t |-> <<>>]

\* str(v)
PyStr(v) == IF v.kind = "int" THEN IntToStr(v.n) ELSE v.s

\* bool(v)
Truthy(v) ==
    CASE v.kind = "None"  -> FALSE
      [] v.kind = "str"   -> v.s # <<>>
      [] v.kind = "int"   -> v.n # 0
      [] v.kind = "tuple" -> v.t # <<>>
      [] OTHER            -> TRUE

\* v.__class__.__name__
ClassName(v) ==
    CASE v.kind = "None"     -> <<"N", "o", "n", "e", "T", "y", "p", "e">>
      [] v.kind = "str"      -> <<"s", "t", "r">>
      [] v.kind = "int"      -> <<"i", "n", "t">>
      [] v.kind = "tuple"    -> <<"t", "u", "p", "l", "e">>
      [] v.kind = "FileType" -> <<"F", "i", "l", "e", "T", "y", "p", "e">>
      [] OTHER               -> <<"t", "y", "p", "e">>

\* argparse.SUPPRESS
SUPPRESS == <<"=", "=", "S", "U", "P", "P", "R", "E", "S", "S", "=", "=">>
SUPPRESS_HELP == SUPPRESS

\* an argparse.Action as the script reads it
Action(cls, option_strings, dest, nargs, help, metavar, choices, type, default) ==
    [cls |-> cls, option_strings |-> option_strings, dest |-> dest,
     nargs |-> nargs, help |-> help, metavar |-> metavar, choices |-> choices,
     type |-> type, default |-> default]

(* ---------------- the loop body, one sub-step per operator ------------- *)

\* bug variant: the sub-parsers action is skipped over instead of aborting
RaisesNotImplementedNever(action) == FALSE

\* elif isinstance(action, _SubParsersAction): raise NotImplementedError
RaisesNotImplemented(action) ==
    /\ action.cls \notin {"_HelpAction", "_VersionAction"}
    /\ action.cls = "_SubParsersAction"

Prefix(action) ==
    IF action.cls \in {"_HelpAction", "_VersionAction"} THEN <<"'", "(", "-", " ", "*", ")", "'">> ELSE <<>>

IsVariadic(nargs) == nargs.kind = "str" /\ nargs.s \in {<<"*">>, <<"+">>}
IsFixedCount(nargs) == nargs.kind = "int" /\ nargs.n > 1

\* bug variant: a fixed count of n advances the counter by n - 1
NextPositionOffByOne(action, position) ==
    IF Len(action.option_strings) >= 1 THEN position
    ELSE IF IsVariadic(action.nargs) THEN position
    ELSE IF IsFixedCount(action.nargs) THEN position + action.nargs.n - 1
    ELSE position + 1

\* the value of position after the option-string step
NextPosition(action, position) ==
    IF Len(action.option_strings) >= 1 THEN position
    ELSE IF IsVariadic(action.nargs) THEN position
    ELSE IF IsFixedCount(action.nargs) THEN position + action.nargs.n
    ELSE position + 1

\* the value of old_position after the option-string step
NextOldPosition(action, position, old_position) ==
    IF Len(action.option_strings) = 0 /\ ~IsVariadic(action.nargs)
       /\ IsFixedCount(action.nargs)
    THEN position ELSE old_position

\* bug variant: the labels of a fixed count start one past the counter
OptionStrShifted(action, position) ==
    IF Len(action.option_strings) > 1
    THEN <<"{">> \o Join(<<",">>, action.option_strings) \o <<"}", "'">>
    ELSE IF Len(action.option_strings) = 1
    THEN action.option_strings[1] \o <<"'">>
    ELSE IF IsVariadic(action.nargs) THEN <<"'", "*">>
    ELSE IF IsFixedCount(action.nargs)
    THEN LET r == Range(position + 1, position + action.nargs.n + 1)
         IN  <<"{">> \o Join(<<",">>, [i \in 1..Len(r) |-> IntToStr(r[i])]) \o <<"}", "'">>
    ELSE IntToStr(position) \o <<"'">>

\* bug variant: len(action.option_strings) >= 1 takes the brace branch
OptionStrAlwaysBraces(action, position) ==
    IF Len(action.option_strings) >= 1
    THEN <<"{">> \o Join(<<",">>, action.option_strings) \o <<"}", "'">>
    ELSE IF IsVariadic(action.nargs) THEN <<"'", "*">>
    ELSE IF IsFixedCount(action.nargs)
    THEN LET r == Range(position, position + action.nargs.n)
         IN  <<"{">> \o Join(<<",">>, [i \in 1..Len(r) |-> IntToStr(r[i])]) \o <<"}", "'">>
    ELSE IntToStr(position) \o <<"'">>

OptionStr(action, position) ==
    IF Len(action.option_strings) > 1
    THEN <<"{">> \o Join(<<",">>, action.option_strings) \o <<"}", "'">>
    ELSE IF Len(action.option_strings) = 1
    THEN action.option_strings[1] \o <<"'">>
    ELSE IF IsVariadic(action.nargs) THEN <<"'", "*">>
    ELSE IF IsFixedCount(action.nargs)
    THEN LET r == Range(position, position + action.nargs.n)
         IN  <<"{">> \o Join(<<",">>, [i \in 1..Len(r) |-> IntToStr(r[i])]) \o <<"}", "'">>
    ELSE IntToStr(position) \o <<"'">>

\* bug variant: the comparison with SUPPRESS_HELP is missing
HelpStrNoSuppress(action) ==
    IF Truthy(action.help) /\ action.option_strings # <<>>
    THEN <<"[">> \o Replace(Replace(action.help.s, <<"]">>, <<"\\", "]">>), <<"'">>, <<"'", "\\", "'", "'">>) \o <<"]">>
    ELSE <<>>

HelpStr(action) ==
    IF /\ Truthy(action.help)
       /\ action.help.s # SUPPRESS_HELP
       /\ action.option_strings # <<>>
    THEN <<"[">> \o Replace(Replace(action.help.s, <<"]">>, <<"\\", "]">>), <<"'">>, <<"'", "\\", "'", "'">>) \o <<"]">>
    ELSE <<>>

\* bug variant: a positional falls through to the type name
ResolveMetavarNoDest(action) ==
    LET raw ==
            IF action.metavar.kind = "str" THEN action.metavar.s
            ELSE IF action.metavar.kind = "tuple"
            THEN Join(<<" ">>, [i \in 1..Len(action.metavar.t) |-> PyStr(action.metavar.t[i])])
            ELSE IF action.nargs.kind = "int" /\ action.nargs.n = 0 THEN <<>>
            ELSE IF action.type.kind = "FileType" THEN <<"f", "i", "l", "e">>
            ELSE IF Truthy(action.type) THEN action.type.s
            ELSE ClassName(action.default)
    IN  IF raw # <<>> THEN Replace(Lower(raw), <<":">>, <<"\\", ":">>) ELSE raw

\* bug variant: .lower() is missing
ResolveMetavarNoLower(action) ==
    LET raw ==
            IF action.metavar.kind = "str" THEN action.metavar.s
            ELSE IF action.metavar.kind = "tuple"
            THEN Join(<<" ">>, [i \in 1..Len(action.metavar.t) |-> PyStr(action.metavar.t[i])])
            ELSE IF action.nargs.kind = "int" /\ action.nargs.n = 0 THEN <<>>
            ELSE IF action.option_strings = <<>> THEN action.dest
            ELSE IF action.type.kind = "FileType" THEN <<"f", "i", "l", "e">>
            ELSE IF Truthy(action.type) THEN action.type.s
            ELSE ClassName(action.default)
    IN  IF raw # <<>> THEN Replace(raw, <<":">>, <<"\\", ":">>) ELSE raw

\* metavar as it stands after the lower-casing step
ResolveMetavar(action) ==
    LET raw ==
            IF action.metavar.kind = "str" THEN action.metavar.s
            ELSE IF action.metavar.kind = "tuple"
            THEN Join(<<" ">>, [i \in 1..Len(action.metavar.t) |-> PyStr(action.metavar.t[i])])
            ELSE IF action.nargs.kind = "int" /\ action.nargs.n = 0 THEN <<>>
            ELSE IF action.option_strings = <<>> THEN action.dest
            ELSE IF action.type.kind = "FileType" THEN <<"f", "i", "l", "e">>
            ELSE IF Truthy(action.type) THEN action.type.s
            ELSE ClassName(action.default)
    IN  IF raw # <<>> THEN Replace(Lower(raw), <<":">>, <<"\\", ":">>) ELSE raw

\* bug variant: the metavar tests come before the choices test
CompletionMetavarFirst(action, metavar) ==
    IF metavar = <<"f", "i", "l", "e">> THEN <<"_", "f", "i", "l", "e", "s">>
    ELSE IF metavar = <<"d", "i", "r">> THEN <<"_", "d", "i", "r", "s">>
    ELSE IF metavar = <<"u", "r", "l">> THEN <<"_", "u", "r", "l", "s">>
    ELSE IF metavar = <<"c", "o", "m", "m", "a", "n", "d">> THEN <<"_", "c", "o", "m", "m", "a", "n", "d", "_", "n", "a", "m", "e", "s", " ", "-", "e">>
    ELSE IF Truthy(action.choices)
    THEN <<"(">> \o Join(<<" ">>, [i \in 1..Len(action.choices.t) |-> PyStr(action.choices.t[i])]) \o <<")">>
    ELSE <<>>

\* completion as chosen by the if/elif chain on choices and metavar
Completion(action, metavar) ==
    IF Truthy(action.choices)
    THEN <<"(">> \o Join(<<" ">>, [i \in 1..Len(action.choices.t) |-> PyStr(action.choices.t[i])]) \o <<")">>
    ELSE IF metavar = <<"f", "i", "l", "e">> THEN <<"_", "f", "i", "l", "e", "s">>
    ELSE IF metavar = <<"d", "i", "r">> THEN <<"_", "d", "i", "r", "s">>
    ELSE IF metavar = <<"u", "r", "l">> THEN <<"_", "u", "r", "l", "s">>
    ELSE IF metavar = <<"c", "o", "m", "m", "a", "n", "d">> THEN <<"_", "c", "o", "m", "m", "a", "n", "d", "_", "n", "a", "m", "e", "s", " ", "-", "e">>
    ELSE <<>>

\* metavar as left by the same chain
ClearMetavar(action, metavar) ==
    IF Truthy(action.choices) THEN metavar
    ELSE IF metavar \in {<<"f", "i", "l", "e">>, <<"d", "i", "r">>, <<"u", "r", "l">>, <<"c", "o", "m", "m", "a", "n", "d">>} THEN <<" ">>
    ELSE metavar

\* if x != "": x = ":" + x
WithColon(x) == IF x # <<>> THEN <<":">> \o x ELSE x

\* "{0}{1}{2}{3}{4}'".format(prefix, optionstr, helpstr, metavar, completion)
Format(prefix, optionstr, helpstr, metavar, completion) ==
    prefix \o optionstr \o helpstr \o metavar \o completion \o <<"'">>

(* ------------------------------ inputs --------------------------------- *)

\* longest list of actions drawn from CorePool
MaxActions == 3

\* the print calls of the demonstration block
NumDemoPrints == 6

Store(option_strings, dest, nargs, help, metavar, choices, type) ==
    Action("_StoreAction", option_strings, dest, nargs, help, metavar, choices, type, None)

HelpFlag ==
    Action("_HelpAction", <<<<"-", "h">>, <<"-", "-", "h", "e", "l", "p">>>>, <<"h", "e", "l", "p">>, IntV(0),
           StrV(<<"s", "h", "o", "w", " ", "t", "h", "i", "s", " ", "h", "e", "l", "p", " ", "m", "e", "s", "s", "a", "g", "e", " ", "a", "n", "d", " ", "e", "x", "i", "t">>), None, None, None, StrV(SUPPRESS))

Positional1(dest) ==
    Store(<<>>, dest, IntV(1), StrV(<<"t", "h", "e", " ", "n", "a", "m", "e">>), None, None, TypeV(<<"s", "t", "r">>))

PositionalN == Store(<<>>, <<"p", "a", "i", "r">>, IntV(4), None, None, None, None)

PositionalStar == Store(<<>>, <<"c", "o", "m", "m", "a", "n", "d">>, StrV(<<"*">>), None, None, None, None)

SubParsers ==
    Action("_SubParsersAction", <<>>, <<"c", "m", "d">>, StrV(<<"A", ".", ".", ".">>), None, None,
           TupleV(<<StrV(<<"r", "u", "n">>)>>), None, None)

ColorFlag ==
    Store(<<<<"-", "-", "c", "o", "l", "o", "r">>>>, <<"c", "o", "l", "o", "r">>, None, StrV(<<"x", "]", "y", "'", "z">>), StrV(<<"W", "H", "E", "N">>),
          TupleV(<<StrV(<<"a", "u", "t", "o">>), StrV(<<"n", "e", "v", "e", "r">>)>>), None)

CorePool == {HelpFlag, Positional1(<<"n", "a", "m", "e">>), PositionalN, PositionalStar, SubParsers, ColorFlag}

RECURSIVE Lists(_, _)
Lists(pool, n) ==
    IF n = 0 THEN {<<>>}
    ELSE LET shorter == Lists(pool, n - 1)
         IN  shorter \cup {Append(l, a) : l \in {x \in shorter : Len(x) = n - 1}, a \in pool}

\* the end-to-end example: the help flag, then one positional with nargs=1
ExampleDests == {<<"n", "a", "m", "e">>, <<"D", "a", "t", "e">>, <<"a", ":", "b">>, <<"f", "i", "l", "e">>, <<"d", "i", "r">>, <<"u", "r", "l">>, <<"c", "o", "m", "m", "a", "n", "d">>}
ExampleLists == {<<HelpFlag, Positional1(d)>> : d \in ExampleDests}

OptionSets == {<<>>, <<<<"-", "f">>>>, <<<<"-", "f">>, <<"-", "-", "f", "o", "o">>>>, <<<<"-", "f">>, <<"-", "-", "f", "o", "o">>, <<"+", "x">>>>}
NargsSet ==
    {None, StrV(<<"?">>), StrV(<<"*">>), StrV(<<"+">>), StrV(<<".", ".", ".">>), IntV(0), IntV(1), IntV(2)}
MetavarSet ==
    {None, StrV(<<>>), StrV(<<"F", "I", "L", "E">>), StrV(<<"d", "i", "r">>), StrV(<<"U", "r", "l">>), StrV(<<"c", "o", "m", "m", "a", "n", "d">>),
     StrV(<<"x", ":", "y">>), TupleV(<<StrV(<<"A">>), StrV(<<"B">>)>>), TupleV(<<StrV(<<"F", "i", "l", "e">>)>>)}
ChoicesSet ==
    {None, TupleV(<<>>), TupleV(<<StrV(<<"a">>), StrV(<<"b">>), StrV(<<"c">>)>>),
     TupleV(<<IntV(1), IntV(20)>>)}
TypeSet == {None, FileTypeV, TypeV(<<"i", "n", "t">>), TypeV(<<"d", "i", "r">>)}
DefaultSet == {None, StrV(<<"x">>), IntV(3)}
HelpSet == {None, StrV(<<>>), StrV(SUPPRESS), StrV(<<"a", "]", "b", "'", "c">>), StrV(<<"p", "l", "a", "i", "n">>)}

\* single actions covering the branches of the loop body
RichPool ==
    {Store(os, d, na, None, None, None, TypeV(<<"s", "t", "r">>)) :
        os \in OptionSets, na \in NargsSet, d \in {<<"n", "a", "m", "e">>, <<"D", "I", "R">>, <<"u", "r", "l">>}}
    \cup
    {Store(os, <<"d", "e", "s", "t">>, None, None, mv, ch, None) :
        os \in {<<>>, <<<<"-", "f">>>>}, mv \in MetavarSet, ch \in ChoicesSet}
    \cup
    {Action("_StoreAction", <<<<"-", "f">>>>, <<"d", "e", "s", "t">>, na, None, None, None, ty, df) :
        na \in {None, IntV(0)}, ty \in TypeSet, df \in DefaultSet}
    \cup
    {Action(cls, os, <<"d", "e", "s", "t">>, IntV(0), h, None, None, None, None) :
        cls \in {"_StoreAction", "_VersionAction"},
        os \in {<<<<"-", "V">>>>, <<<<"-", "V">>, <<"-", "-", "v", "e", "r", "s", "i", "o", "n">>>>}, h \in HelpSet}
    \cup
    {Store(<<>>, <<"d", "e", "s", "t">>, None, h, None, None, None) : h \in HelpSet}

\* sys.argv[1:]
Argvs == {<<>>, <<<<"{", "{", "f", "l", "a", "g", "s", "}", "}">>>>, <<<<"a", "_", "b">>, <<"-">>>>, <<<<"a", "_", "b">>, <<"o", "u", "t">>>>}

\* contents the template file may have
Templates ==
    {<<"{", "{", "p", "r", "o", "g", "r", "a", "m", "s", "}", "}", "{", "{", "f", "l", "a", "g", "s", "}", "}">>,
     <<"#", "c", "o", "m", "p", "d", "e", "f", " ", "{", "{", "p", "r", "o", "g", "r", "a", "m", "s", "}", "}", "\n", "_", "a", "r", "g", "u", "m", "e", "n", "t", "s", " ", "\\", "\n", " ", " ", "{", "{", "f", "l", "a", "g", "s", "}", "}", "\n">>}

(* ------------------------------- state --------------------------------- *)

VARIABLES
    argv,          \* sys.argv[1:]
    actions,       \* parser._actions
    idx,           \* 1-based index of the next action the for loop takes
    action,        \* loop variable
    flags, position, old_position,
    prefix, optionstr, helpstr, metavar, completion, flag,
    template_in,   \* what the file zsh_completion.in holds
    template,
    outfile,       \* the destination file: [exists, name, content]
    stdout,        \* sys.stdout: [closed, text, lines]
    pc,            \* where the script is
    err            \* the exception that ended the script, "" when none

vars == <<argv, actions, idx, action, flags, position, old_position, prefix,
          optionstr, helpstr, metavar, completion, flag, template_in, template,
          outfile, stdout, pc, err>>

PACKAGE == IF Len(argv) < 1 THEN <<"p", "d", "d">> ELSE argv[1]
BINNAME == Replace(PACKAGE, <<"_">>, <<"-">>)
BINNAMES == <<BINNAME>>
ZSH_COMPLETION_FILE == IF Len(argv) < 2 THEN <<"_">> \o BINNAME ELSE argv[2]

\* the loop variable before the loop has bound it
Unbound == Action("unbound", <<>>, <<>>, None, None, None, None, None, None)

\* the names the loop assigns are unbound until it runs; they start empty here
Init ==
    /\ argv \in Argvs
    /\ actions \in Lists(CorePool, MaxActions) \cup ExampleLists
                   \cup {<<a>> : a \in RichPool}
    /\ idx = 1
    /\ action = Unbound
    /\ flags = <<>>
    /\ position = 1
    /\ old_position = 0
    /\ prefix = <<>> /\ optionstr = <<>> /\ helpstr = <<>>
    /\ metavar = <<>> /\ completion = <<>> /\ flag = <<>>
    /\ template_in \in Templates
    /\ template = <<>>
    /\ outfile = [exists |-> FALSE, name |-> <<>>, content |-> <<>>]
    /\ stdout = [closed |-> FALSE, text |-> <<>>, lines |-> 0]
    /\ pc = "loop"
    /\ err = ""

(* ------------------------------ actions -------------------------------- *)

\* one iteration of `for action in actions` that reaches flags += [flag]
LoopBody ==
    /\ pc = "loop"
    /\ idx <= Len(actions)
    /\ ~RaisesNotImplemented(actions[idx])
    /\ LET a  == actions[idx]
           mv == ResolveMetavar(a)
       IN  /\ action' = a
           /\ prefix' = Prefix(a)
           /\ optionstr' = OptionStr(a, position)
           /\ position' = NextPosition(a, position)
           /\ old_position' = NextOldPosition(a, position, old_position)
           /\ helpstr' = HelpStr(a)
           /\ metavar' = WithColon(ClearMetavar(a, mv))
           /\ completion' = WithColon(Completion(a, mv))
    /\ flag' = Format(prefix', optionstr', helpstr', metavar', completion')
    /\ flags' = Append(flags, flag')
    /\ idx' = idx + 1
    /\ UNCHANGED <<argv, actions, template_in, template, outfile, stdout, pc, err>>

\* the iteration that meets a sub-parsers action: raise NotImplementedError
LoopRaise ==
    /\ pc = "loop"
    /\ idx <= Len(actions)
    /\ RaisesNotImplemented(actions[idx])
    /\ action' = actions[idx]
    /\ pc' = "raised"
    /\ err' = "NotImplementedError"
    /\ UNCHANGED <<argv, actions, template_in, idx, flags, position, old_position, prefix,
                   optionstr, helpstr, metavar, completion, flag, template,
                   outfile, stdout>>

\* with open(ZSH_COMPLETION_TEMPLATE) as f: template = f.read()
\* (the template file exists and is readable)
ReadTemplate ==
    /\ pc = "loop"
    /\ idx > Len(actions)
    /\ template' = template_in
    /\ pc' = "substitute"
    /\ UNCHANGED <<argv, actions, template_in, idx, action, flags, position, old_position,
                   prefix, optionstr, helpstr, metavar, completion, flag,
                   outfile, stdout, err>>

SubstitutePrograms(text) == Replace(text, <<"{", "{", "p", "r", "o", "g", "r", "a", "m", "s", "}", "}">>, Join(<<" ">>, BINNAMES))
SubstituteFlags(text) == Replace(text, <<"{", "{", "f", "l", "a", "g", "s", "}", "}">>, Join(<<" ", "\\", "\n", " ", " ">>, flags))

\* the two template.replace assignments
Substitute ==
    /\ pc = "substitute"
    /\ template' = SubstituteFlags(SubstitutePrograms(template))
    /\ pc' = "write"
    /\ UNCHANGED <<argv, actions, template_in, idx, action, flags, position, old_position,
                   prefix, optionstr, helpstr, metavar, completion, flag,
                   outfile, stdout, err>>

\* does leaving the with block close sys.stdout
ExitClosesStdout == TRUE

\* with (open(ZSH_COMPLETION_FILE, "w") if ... != "-" else sys.stdout) as f:
\*     f.write(template)
\* (the destination can be opened for writing); leaving the block closes f
WriteOutput ==
    /\ pc = "write"
    /\ IF ZSH_COMPLETION_FILE # <<"-">>
       THEN /\ outfile' = [exists |-> TRUE, name |-> ZSH_COMPLETION_FILE,
                           content |-> template]
            /\ UNCHANGED stdout
       ELSE /\ stdout' = [closed |-> ExitClosesStdout,
                          text |-> stdout.text \o template,
                          lines |-> stdout.lines]
            /\ UNCHANGED outfile
    /\ pc' = "demo"
    /\ UNCHANGED <<argv, actions, template_in, idx, action, flags, position, old_position,
                   prefix, optionstr, helpstr, metavar, completion, flag,
                   template, err>>

\* one print(...) of the example-usage block, sys.stdout still open
DemoPrint ==
    /\ pc = "demo"
    /\ ~stdout.closed
    /\ stdout.lines < NumDemoPrints
    /\ stdout' = [stdout EXCEPT !.lines = @ + 1]
    /\ pc' = IF stdout.lines + 1 = NumDemoPrints THEN "done" ELSE "demo"
    /\ UNCHANGED <<argv, actions, template_in, idx, action, flags, position, old_position,
                   prefix, optionstr, helpstr, metavar, completion, flag,
                   template, outfile, err>>

\* print(...) on a closed sys.stdout: ValueError, uncaught
DemoPrintRaise ==
    /\ pc = "demo"
    /\ stdout.closed
    /\ pc' = "raised"
    /\ err' = "ValueError"
    /\ UNCHANGED <<argv, actions, template_in, idx, action, flags, position, old_position,
                   prefix, optionstr, helpstr, metavar, completion, flag,
                   template, outfile, stdout>>

Next ==
    \/ LoopBody
    \/ LoopRaise
    \/ ReadTemplate
    \/ Substitute
    \/ WriteOutput
    \/ DemoPrint
    \/ DemoPrintRaise

Spec == Init /\ [][Next]_vars

(* ------------------------------ properties ----------------------------- *)

\* the globals hold the results of the iteration on actions[idx - 1]
Built == idx > 1 /\ err # "NotImplementedError"

HasDispatcher == \E i \in 1..Len(actions) : actions[i].cls = "_SubParsersAction"
FirstDispatcher ==
    CHOOSE i \in 1..Len(actions) :
        /\ actions[i].cls = "_SubParsersAction"
        /\ \A j \in 1..(i - 1) : actions[j].cls # "_SubParsersAction"

OutputUntouched ==
    /\ ~outfile.exists /\ outfile.content = <<>>
    /\ stdout.text = <<>> /\ ~stdout.closed /\ stdout.lines = 0
    /\ template = <<>>

\* C1: a list holding a sub-parsers action at any position never gets past
\* the loop: the run either is still iterating before that action, or stands
\* at it with the raise as its only step, or has ended there with
\* NotImplementedError; the destination is never opened or written, the
\* template never read.
C1_DispatcherAborts ==
    HasDispatcher =>
        /\ OutputUntouched
        /\ idx <= FirstDispatcher
        /\ \/ pc = "raised" /\ err = "NotImplementedError" /\ idx = FirstDispatcher
           \/ /\ pc = "loop" /\ err = ""
              /\ idx = FirstDispatcher => (ENABLED LoopRaise /\ ~ENABLED LoopBody)

C1_Witness ==
    /\ pc = "raised" /\ err = "NotImplementedError"
    /\ Len(actions) = 3 /\ actions[2].cls = "_SubParsersAction"
    /\ Len(flags) = 1

HelpDirective == <<"'", "(", "-", " ", "*", ")", "'", "{", "-", "h", ",", "-", "-", "h", "e", "l", "p", "}", "'", "[", "s", "h", "o", "w", " ", "t", "h", "i", "s", " ", "h", "e", "l", "p", " ", "m", "e", "s", "s", "a", "g", "e", " ", "a", "n", "d", " ", "e", "x", "i", "t", "]", "'">>

IsExample == actions \in ExampleLists /\ idx = 3

\* what the example's second directive is, by the positional's internal name
ExampleSecond(dest) ==
    CASE dest = <<"n", "a", "m", "e">> -> <<"1", "'", ":", "n", "a", "m", "e", "'">>
      [] dest = <<"D", "a", "t", "e">> -> <<"1", "'", ":", "d", "a", "t", "e", "'">>
      [] dest = <<"a", ":", "b">>  -> <<"1", "'", ":", "a", "\\", ":", "b", "'">>
      [] dest = <<"f", "i", "l", "e">> -> <<"1", "'", ":", " ", ":", "_", "f", "i", "l", "e", "s", "'">>
      [] dest = <<"d", "i", "r">>  -> <<"1", "'", ":", " ", ":", "_", "d", "i", "r", "s", "'">>
      [] dest = <<"u", "r", "l">>  -> <<"1", "'", ":", " ", ":", "_", "u", "r", "l", "s", "'">>
      [] dest = <<"c", "o", "m", "m", "a", "n", "d">> -> <<"1", "'", ":", " ", ":", "_", "c", "o", "m", "m", "a", "n", "d", "_", "n", "a", "m", "e", "s", " ", "-", "e", "'">>

\* C2 as stated: the example's second directive is the bare 1'
C2_Original ==
    IsExample =>
        /\ flags = <<HelpDirective, <<"1", "'">>>>
        /\ position = 2

\* C2 amended: the example yields exactly two directives, the help flag's
\* and the positional's, which is the label 1, a quote, a metavar segment
\* made of the lower-cased, colon-escaped internal name (a blank and the
\* completion function when that name is file, dir, url or command), and the
\* closing quote; the counter ends at 2.
C2_EndToEnd ==
    IsExample =>
        /\ flags = <<HelpDirective, ExampleSecond(actions[2].dest)>>
        /\ position = 2

C2_Witness ==
    /\ pc = "done"
    /\ actions = <<HelpFlag, Positional1(<<"n", "a", "m", "e">>)>>
    /\ flags[2] = <<"1", "'", ":", "n", "a", "m", "e", "'">>

\* the labels p, p+1, ..., p+n-1, comma-separated
RECURSIVE CommaLabels(_, _)
CommaLabels(p, n) ==
    IF n = 1 THEN IntToStr(p) ELSE IntToStr(p) \o <<",">> \o CommaLabels(p + 1, n - 1)

\* the step is an iteration of the loop on the action a
Iterates(a) == pc = "loop" /\ idx <= Len(actions) /\ idx' = idx + 1 /\ a = actions[idx]

\* C3: an iteration on a positional with fixed count N > 1, taken with the
\* counter at p, sets the option-string to the brace group p,...,p+N-1
\* (followed by the opening quote) and leaves the counter at p + N.
C3_FixedCount ==
    [][\A a \in {actions[i] : i \in {idx} \cap (1..Len(actions))} :
          (Iterates(a) /\ a.option_strings = <<>> /\ IsFixedCount(a.nargs)) =>
              /\ optionstr' = <<"{">> \o CommaLabels(position, a.nargs.n) \o <<"}", "'">>
              /\ position' = position + a.nargs.n]_vars

C3_Witness ==
    /\ Built
    /\ action.option_strings = <<>> /\ IsFixedCount(action.nargs)
    /\ optionstr = <<"{", "9", ",", "1", "0", ",", "1", "1", ",", "1", "2", "}", "'">>
    /\ position = 13

\* the option-string of each alias list the inputs hold
AliasOptionStr(os) ==
    CASE os = <<<<"-", "h">>, <<"-", "-", "h", "e", "l", "p">>>>         -> <<"{", "-", "h", ",", "-", "-", "h", "e", "l", "p", "}", "'">>
      [] os = <<<<"-", "-", "c", "o", "l", "o", "r">>>>                -> <<"-", "-", "c", "o", "l", "o", "r", "'">>
      [] os = <<<<"-", "f">>>>                     -> <<"-", "f", "'">>
      [] os = <<<<"-", "f">>, <<"-", "-", "f", "o", "o">>>>          -> <<"{", "-", "f", ",", "-", "-", "f", "o", "o", "}", "'">>
      [] os = <<<<"-", "f">>, <<"-", "-", "f", "o", "o">>, <<"+", "x">>>>  -> <<"{", "-", "f", ",", "-", "-", "f", "o", "o", ",", "+", "x", "}", "'">>
      [] os = <<<<"-", "V">>>>                     -> <<"-", "V", "'">>
      [] os = <<<<"-", "V">>, <<"-", "-", "v", "e", "r", "s", "i", "o", "n">>>>      -> <<"{", "-", "V", ",", "-", "-", "v", "e", "r", "s", "i", "o", "n", "}", "'">>

\* C7: an iteration on an action with aliases sets the option-string to the
\* single alias without braces, or to the brace group of all aliases in
\* order, comma-joined (each followed by the opening quote), and leaves the
\* counter as it was.
C7_AliasOptionStr ==
    [][\A a \in {actions[i] : i \in {idx} \cap (1..Len(actions))} :
          (Iterates(a) /\ Len(a.option_strings) >= 1) =>
              /\ optionstr' = AliasOptionStr(a.option_strings)
              /\ position' = position]_vars

C7_Witness ==
    /\ Built
    /\ action.option_strings = <<<<"-", "f">>, <<"-", "-", "f", "o", "o">>, <<"+", "x">>>>
    /\ optionstr = <<"{", "-", "f", ",", "-", "-", "f", "o", "o", ",", "+", "x", "}", "'">>

NoHelpCase ==
    \/ ~Truthy(action.help)
    \/ action.help.s = SUPPRESS
    \/ action.option_strings = <<>>

\* C8: after an iteration on an action whose help is None, empty or the
\* SUPPRESS sentinel, or on a positional, the help fragment is empty: the
\* directive is prefix, option-string, metavar, completion and the closing
\* quote, and holds no [ at all.
C8_NoHelpFragment ==
    (Built /\ NoHelpCase) =>
        /\ helpstr = <<>>
        /\ flag = prefix \o optionstr \o metavar \o completion \o <<"'">>
        /\ \A i \in 1..Len(flag) : flag[i] # "["

C8_Witness ==
    /\ Built
    /\ action.help = StrV(SUPPRESS)
    /\ action.option_strings = <<<<"-", "V">>, <<"-", "-", "v", "e", "r", "s", "i", "o", "n">>>>
    /\ action.cls = "_VersionAction"
    /\ flag = <<"'", "(", "-", " ", "*", ")", "'", "{", "-", "V", ",", "-", "-", "v", "e", "r", "s", "i", "o", "n", "}", "'", "'">>

C8_WitnessPositional ==
    /\ Built
    /\ action.option_strings = <<>>
    /\ action.help = StrV(<<"a", "]", "b", "'", "c">>)

\* the parenthesized list of each choices value the inputs hold
ChoicesHint(ch) ==
    CASE ch = TupleV(<<StrV(<<"a">>), StrV(<<"b">>), StrV(<<"c">>)>>) -> <<"(", "a", " ", "b", " ", "c", ")">>
      [] ch = TupleV(<<IntV(1), IntV(20)>>)                     -> <<"(", "1", " ", "2", "0", ")">>
      [] ch = TupleV(<<StrV(<<"a", "u", "t", "o">>), StrV(<<"n", "e", "v", "e", "r">>)>>)       -> <<"(", "a", "u", "t", "o", " ", "n", "e", "v", "e", "r", ")">>

EndsWith(s, suffix) ==
    /\ Len(s) >= Len(suffix)
    /\ SubSeq(s, Len(s) - Len(suffix) + 1, Len(s)) = suffix

\* C4: after an iteration on an action with non-empty choices, the
\* completion is the parenthesized, space-joined choices in order, the
\* directive ends with it, and the metavar is not blanked, whatever the
\* metavar resolves to.
C4_ChoicesFirst ==
    (Built /\ Truthy(action.choices)) =>
        /\ completion = <<":">> \o ChoicesHint(action.choices)
        /\ EndsWith(flag, <<":">> \o ChoicesHint(action.choices) \o <<"'">>)
        /\ metavar # <<":", " ">>

C4_Witness ==
    /\ Built
    /\ action.metavar = StrV(<<"F", "I", "L", "E">>)
    /\ action.choices = TupleV(<<StrV(<<"a">>), StrV(<<"b">>), StrV(<<"c">>)>>)
    /\ flag = <<"-", "f", "'", ":", "f", "i", "l", "e", ":", "(", "a", " ", "b", " ", "c", ")", "'">>

\* the metavar before lower-casing, as the specification resolves it
SpecMetavar(a) ==
    CASE a.metavar.kind = "str"   -> a.metavar.s
      [] a.metavar.kind = "tuple" ->
            Join(<<" ">>, [i \in 1..Len(a.metavar.t) |-> PyStr(a.metavar.t[i])])
      [] OTHER ->
            CASE a.nargs = IntV(0)          -> <<>>
              [] a.option_strings = <<>>    -> a.dest
              [] a.type = FileTypeV          -> <<"f", "i", "l", "e">>
              [] a.type.kind = "type"        -> a.type.s
              [] OTHER                       -> ClassName(a.default)

\* s and t are the same up to letter case
SameFolded(s, t) == Lower(s) = Lower(t)

\* the completion function for each of the four special metavars
SpecHint(a) ==
    CASE SameFolded(SpecMetavar(a), <<"f", "i", "l", "e">>)    -> <<"_", "f", "i", "l", "e", "s">>
      [] SameFolded(SpecMetavar(a), <<"d", "i", "r">>)     -> <<"_", "d", "i", "r", "s">>
      [] SameFolded(SpecMetavar(a), <<"u", "r", "l">>)     -> <<"_", "u", "r", "l", "s">>
      [] SameFolded(SpecMetavar(a), <<"c", "o", "m", "m", "a", "n", "d">>) -> <<"_", "c", "o", "m", "m", "a", "n", "d", "_", "n", "a", "m", "e", "s", " ", "-", "e">>
      [] OTHER                                  -> <<>>

\* C5: after an iteration on an action without choices, a metavar that
\* resolves (lower-cased) to file, dir, url or command gives _files, _dirs,
\* _urls or _command_names -e, blanks the metavar, and the directive ends
\* with ": :" and that function; any other metavar gives no completion and
\* the directive ends with the metavar segment.
C5_MetavarHint ==
    (Built /\ ~Truthy(action.choices)) =>
        IF SpecHint(action) # <<>>
        THEN /\ completion = <<":">> \o SpecHint(action)
             /\ metavar = <<":", " ">>
             /\ EndsWith(flag, optionstr \o helpstr \o <<":", " ", ":">> \o SpecHint(action) \o <<"'">>)
        ELSE /\ completion = <<>>
             /\ flag = prefix \o optionstr \o helpstr \o metavar \o <<"'">>

C5_Witness ==
    /\ Built
    /\ action.metavar = StrV(<<"F", "I", "L", "E">>)
    /\ ~Truthy(action.choices)
    /\ flag = <<"-", "f", "'", ":", " ", ":", "_", "f", "i", "l", "e", "s", "'">>

IsDigit(c) == \E d \in 1..10 : Digits[d] = c
DigitValue(c) == (CHOOSE d \in 1..10 : Digits[d] = c) - 1

\* the decimal numbers of f from index i on, up to the first character that
\* is neither a digit nor a comma
RECURSIVE ReadLabels(_, _, _, _)
ReadLabels(f, i, current, read) ==
    IF i <= Len(f) /\ IsDigit(f[i])
    THEN ReadLabels(f, i + 1, 10 * current + DigitValue(f[i]), read)
    ELSE IF i <= Len(f) /\ f[i] = ","
    THEN ReadLabels(f, i + 1, 0, Append(read, current))
    ELSE Append(read, current)

\* the index labels a directive starts with
LabelsOf(f) ==
    IF IsDigit(f[1]) THEN ReadLabels(f, 1, 0, <<>>)
    ELSE IF f[1] = "{" /\ IsDigit(f[2]) THEN ReadLabels(f, 2, 0, <<>>)
    ELSE <<>>

RECURSIVE AllLabels(_)
AllLabels(fs) == IF fs = <<>> THEN <<>> ELSE LabelsOf(Head(fs)) \o AllLabels(Tail(fs))

LabelsExact == AllLabels(flags) = [i \in 1..(position - 1) |-> i]

CounterStep ==
    \A a \in {actions[i] : i \in {idx} \cap (1..Len(actions))} :
        Iterates(a) =>
            /\ (Len(a.option_strings) >= 1 \/ IsVariadic(a.nargs)) => position' = position
            /\ (a.option_strings = <<>> /\ ~IsVariadic(a.nargs) /\ ~IsFixedCount(a.nargs))
                   => position' = position + 1

\* C9: the index labels the directives start with, read in output order, are
\* exactly 1, 2, ..., position - 1 (distinct and increasing); an iteration on
\* an action with aliases or on a variadic positional leaves the counter
\* alone, and one on any other positional whose nargs is not an int above 1
\* advances it by 1.
C9_Labels == []LabelsExact /\ [][CounterStep]_vars

C9_Witness ==
    /\ pc = "done"
    /\ Len(flags) = 3
    /\ AllLabels(flags) = <<1, 2, 3, 4, 5, 6, 7, 8, 9>>
    /\ position = 10

SEP == <<" ", "\\", "\n", " ", " ">>

\* C6 as stated: with the template holding just the two placeholders, the
\* substituted text is the space-joined program names followed by the
\* joined directives.
C6_RoundTrip ==
    (template_in = <<"{", "{", "p", "r", "o", "g", "r", "a", "m", "s", "}", "}", "{", "{", "f", "l", "a", "g", "s", "}", "}">> /\ (pc \in {"write", "demo", "done"} \/ err = "ValueError")) =>
        template = Join(<<" ">>, BINNAMES) \o Join(SEP, flags)

\* C10 as stated: with destination - and no sub-parsers action the run raises
\* nothing, and sys.stdout is open once the script text is written.
C10_StdoutUsable ==
    (ZSH_COMPLETION_FILE = <<"-">> /\ ~HasDispatcher) =>
        /\ err = ""
        /\ pc \in {"demo", "done"} => ~stdout.closed

====
